---- MODULE Spec2Model ----
(***************************************************************************)
(* Model of the link-parsing and batch-copy pipeline of the content saver  *)
(* bot (src/bot.py): parse_telegram_link, copy_message_with_fallback,      *)
(* handle_copy_error, cancel_command and handle_message_link, with the     *)
(* ACTIVE_BATCHES store shared by the handlers.                            *)
(*                                                                         *)
(* Handlers are coroutines of one event loop: the code between two awaits  *)
(* of a network call runs atomically, and other handlers run while a call  *)
(* is awaited.  Every action below is one such stretch of code.            *)
(***************************************************************************)
EXTENDS Integers, Sequences, FiniteSets, TLC

(***************************************************************************)
(* Text.  Python strings are TLA+ strings; characters are strings of       *)
(* length one.                                                             *)
(***************************************************************************)
CharAt(s, i) == SubSeq(s, i, i)

DropFirst(s, n) == SubSeq(s, n + 1, Len(s))

StartsWith(s, p) == Len(p) <= Len(s) /\ SubSeq(s, 1, Len(p)) = p

\* Python's  p in s
Contains(s, p) == \E i \in 1..(Len(s) - Len(p) + 1) : SubSeq(s, i, i + Len(p) - 1) = p

\* the characters \s matches and str.strip() removes
IsSpace(c) == c \in {" ", "\n", "\t", "\r"}

IsDigit(c) == c \in {"0", "1", "2", "3", "4", "5", "6", "7", "8", "9"}

\* \d+ against a whole string
AllDigits(s) == Len(s) >= 1 /\ \A i \in 1..Len(s) : IsDigit(CharAt(s, i))

DigitVal(c) == CHOOSE d \in 0..9 : CharAt("0123456789", d + 1) = c

\* int(s) of a digit string
RECURSIVE ToInt(_)
ToInt(s) == IF Len(s) = 0 THEN 0 ELSE 10 * ToInt(SubSeq(s, 1, Len(s) - 1)) + DigitVal(CharAt(s, Len(s)))

\* position of the first occurrence of character c in s, 0 when there is none
IndexOf(s, c) == IF \E i \in 1..Len(s) : CharAt(s, i) = c THEN CHOOSE i \in 1..Len(s) : CharAt(s, i) = c /\ \A j \in 1..(i - 1) : CharAt(s, j) # c ELSE 0

\* str.strip()
RECURSIVE Strip(_)
Strip(s) == IF Len(s) = 0 THEN s ELSE IF IsSpace(CharAt(s, 1)) THEN Strip(DropFirst(s, 1)) ELSE IF IsSpace(CharAt(s, Len(s))) THEN Strip(SubSeq(s, 1, Len(s) - 1)) ELSE s

\* str.replace(" ", "")
RECURSIVE RemoveSpaces(_)
RemoveSpaces(s) == IF Len(s) = 0 THEN s ELSE IF CharAt(s, 1) = " " THEN RemoveSpaces(DropFirst(s, 1)) ELSE CharAt(s, 1) \o RemoveSpaces(DropFirst(s, 1))

\* the locator parse_telegram_link returns for an unrecognized link
None == [type |-> "None"]

(***************************************************************************)
(* parse_telegram_link (src/bot.py).                                       *)
(***************************************************************************)
\* https?://t\.me/ at the start of s (re.match anchors the pattern there)
HasTMe(s) == StartsWith(s, "https://t.me/") \/ StartsWith(s, "http://t.me/")

\* what follows that prefix
AfterTMe(s) == IF StartsWith(s, "https://t.me/") THEN DropFirst(s, Len("https://t.me/")) ELSE IF StartsWith(s, "http://t.me/") THEN DropFirst(s, Len("http://t.me/")) ELSE ""

\* ([^/]+)/ at the start of r: the handle is what precedes the first slash
HandleOf(r) == SubSeq(r, 1, IndexOf(r, "/") - 1)

AfterHandle(r) == DropFirst(r, IndexOf(r, "/"))

\* r"https?://t\.me/([^/]+)/(\d+)-(\d+)$"
MatchPublicBatch(s) == LET r == AfterTMe(s) IN
    /\ HasTMe(s)
    /\ IndexOf(r, "/") >= 2
    /\ LET t == AfterHandle(r) IN
        /\ IndexOf(t, "-") >= 2
        /\ AllDigits(SubSeq(t, 1, IndexOf(t, "-") - 1))
        /\ AllDigits(DropFirst(t, IndexOf(t, "-")))

\* r"https?://t\.me/([^/]+)/(\d+)$"
MatchPublic(s) == LET r == AfterTMe(s) IN
    /\ HasTMe(s)
    /\ IndexOf(r, "/") >= 2
    /\ AllDigits(AfterHandle(r))

\* what follows the last slash of r
RECURSIVE AfterLastSlash(_)
AfterLastSlash(r) == IF IndexOf(r, "/") = 0 THEN r ELSE AfterLastSlash(DropFirst(r, IndexOf(r, "/")))

\* a parser that returns the two ids of a range in the other order
parse_swapped_range(text) == LET link == RemoveSpaces(Strip(text)) IN
    IF MatchPublicBatch(link)
    THEN LET t == AfterHandle(AfterTMe(link)) IN
         [type |-> "public", channel |-> HandleOf(AfterTMe(link)), topic_id |-> "None",
          message_id_start |-> ToInt(DropFirst(t, IndexOf(t, "-"))),
          message_id_end |-> ToInt(SubSeq(t, 1, IndexOf(t, "-") - 1))]
    ELSE IF MatchPublic(link)
    THEN [type |-> "public", channel |-> HandleOf(AfterTMe(link)), topic_id |-> "None",
          message_id_start |-> ToInt(AfterHandle(AfterTMe(link))),
          message_id_end |-> ToInt(AfterHandle(AfterTMe(link)))]
    ELSE None

\* a parser that takes the last path segment of any t.me link for the id
parse_last_segment(text) == LET link == RemoveSpaces(Strip(text)) IN
    IF MatchPublicBatch(link)
    THEN LET t == AfterHandle(AfterTMe(link)) IN
         [type |-> "public", channel |-> HandleOf(AfterTMe(link)), topic_id |-> "None",
          message_id_start |-> ToInt(SubSeq(t, 1, IndexOf(t, "-") - 1)),
          message_id_end |-> ToInt(DropFirst(t, IndexOf(t, "-")))]
    ELSE IF HasTMe(link) /\ IndexOf(AfterTMe(link), "/") >= 2 /\ AllDigits(AfterLastSlash(AfterTMe(link)))
    THEN [type |-> "public", channel |-> HandleOf(AfterTMe(link)), topic_id |-> "None",
          message_id_start |-> ToInt(AfterLastSlash(AfterTMe(link))),
          message_id_end |-> ToInt(AfterLastSlash(AfterTMe(link)))]
    ELSE None

parse_telegram_link(text) == LET link == RemoveSpaces(Strip(text)) IN
    IF MatchPublicBatch(link)
    THEN LET t == AfterHandle(AfterTMe(link)) IN
         [type |-> "public", channel |-> HandleOf(AfterTMe(link)), topic_id |-> "None",
          message_id_start |-> ToInt(SubSeq(t, 1, IndexOf(t, "-") - 1)),
          message_id_end |-> ToInt(DropFirst(t, IndexOf(t, "-")))]
    ELSE IF MatchPublic(link)
    THEN [type |-> "public", channel |-> HandleOf(AfterTMe(link)), topic_id |-> "None",
          message_id_start |-> ToInt(AfterHandle(AfterTMe(link))),
          message_id_end |-> ToInt(AfterHandle(AfterTMe(link)))]
    ELSE None

(***************************************************************************)
(* The link search of handle_message_link (src/bot.py, lines 691-702).     *)
(***************************************************************************)
\* any(domain in text for domain in ['t.me/', 'telegram.me/'])
HasDomain(text) == Contains(text, "t.me/") \/ Contains(text, "telegram.me/")

UrlHeads == {"https://t.me/", "http://t.me/", "https://telegram.me/", "http://telegram.me/"}

\* r'https?://(?:t\.me|telegram\.me)/\S+' matches at position i of text
LinkAt(text, i) == \E hd \in UrlHeads :
    /\ StartsWith(DropFirst(text, i - 1), hd)
    /\ Len(text) >= i + Len(hd)
    /\ ~IsSpace(CharAt(text, i + Len(hd)))

\* re.search: the leftmost position where the pattern matches, 0 when none
LinkStart(text) == IF \E i \in 1..Len(text) : LinkAt(text, i) THEN CHOOSE i \in 1..Len(text) : LinkAt(text, i) /\ \A j \in 1..(i - 1) : ~LinkAt(text, j) ELSE 0

\* the longest prefix of s without whitespace (the greedy \S+ stops there)
RECURSIVE NonSpacePrefix(_)
NonSpacePrefix(s) == IF Len(s) = 0 \/ IsSpace(CharAt(s, 1)) THEN "" ELSE CharAt(s, 1) \o NonSpacePrefix(DropFirst(s, 1))

\* link_match.group()
LinkMatch(text) == NonSpacePrefix(DropFirst(text, LinkStart(text) - 1))

(***************************************************************************)
(* handle_copy_error (src/bot.py): the Error Classifier.                   *)
(***************************************************************************)
error_responses == <<
    <<"CHAT_ADMIN_REQUIRED", "Error: Bot needs admin rights in the source channel.">>,
    <<"USER_NOT_PARTICIPANT", "Error: Bot is not a member of the source channel. Please add it.">>,
    <<"MESSAGE_ID_INVALID", "Error: Message not found or invalid message ID.">>,
    <<"CHANNEL_PRIVATE", "Error: Cannot access private channel. This bot only supports public channels.">>,
    <<"PEER_ID_INVALID", "Error: Invalid channel/chat ID. Make sure the link is correct.">>,
    <<"FLOOD_WAIT", "Error: Rate limited by Telegram. Please try again later.">>,
    <<"Message is empty", "Error: The message appears to be empty or has no content to copy.">> >>

\* a suppression that gives way to the table
SuppressedUnlessClassified(error_msg) == Contains(error_msg, "MESSAGE_NOT_MODIFIED") /\ \A k \in 1..Len(error_responses) : ~Contains(error_msg, error_responses[k][1])

\* if "MESSAGE_NOT_MODIFIED" in error_msg: return
Suppressed(error_msg) == Contains(error_msg, "MESSAGE_NOT_MODIFIED")

\* a classifier in which the last matching table entry wins
ErrorResponseLastMatch(error_msg) == IF \E k \in 1..Len(error_responses) : Contains(error_msg, error_responses[k][1]) THEN error_responses[CHOOSE k \in 1..Len(error_responses) : Contains(error_msg, error_responses[k][1]) /\ \A j \in (k + 1)..Len(error_responses) : ~Contains(error_msg, error_responses[j][1])][2] ELSE "An unexpected error occurred: " \o error_msg

\* the text handle_copy_error edits the status to: the first table entry whose
\* pattern is in error_msg, else the generic message carrying the raw text
ErrorResponse(error_msg) == IF \E k \in 1..Len(error_responses) : Contains(error_msg, error_responses[k][1]) THEN error_responses[CHOOSE k \in 1..Len(error_responses) : Contains(error_msg, error_responses[k][1]) /\ \A j \in 1..(k - 1) : ~Contains(error_msg, error_responses[j][1])][2] ELSE "An unexpected error occurred: " \o error_msg

(***************************************************************************)
(* Status texts of handle_message_link.                                    *)
(***************************************************************************)
Processing == "Processing your request..."

InvalidFormat == "Invalid Link Format"

Inverted == "Error: 'From' ID must be smaller than 'To' ID."

TooLarge(limit, n) == "Error: Range too large. Max " \o ToString(limit) \o " posts at a time. You requested " \o ToString(n) \o "."

Progress(n) == "Processing " \o ToString(n) \o " messages... (Send /cancel to stop)"

CancelNotice == "Batch operation cancelled by user."

Saved == "Content saved successfully!"

BatchComplete(s, f) == "Batch Complete. Successfully saved: " \o ToString(s) \o " Failed to save: " \o ToString(f)

BATCH_LIMIT == 100

(***************************************************************************)
(* The collaborators: the source channel, the faults of the messaging      *)
(* client, the users.                                                      *)
(***************************************************************************)
\* the number of raised calls (network faults) one run may see
MaxFaults == 1

Users == {1, 2}

Handlers == {1, 2}

NoMessage == [found |-> FALSE, text |-> FALSE, caption |-> FALSE, media |-> "", poll |-> FALSE, protected |-> FALSE]

Msg(text, caption, media, poll, protected) == [found |-> TRUE, text |-> text, caption |-> caption, media |-> media, poll |-> poll, protected |-> protected]

\* what client.get_messages(chat, id) returns: the messages of the public
\* channel "demo"; a record with found = FALSE stands for no message
Channel(id) == CASE id = 1 -> Msg(TRUE, FALSE, "", FALSE, FALSE)
    [] id = 2 -> NoMessage
    [] id = 3 -> Msg(FALSE, TRUE, "photo", FALSE, TRUE)
    [] id = 4 -> Msg(FALSE, FALSE, "poll", TRUE, FALSE)
    [] id = 5 -> Msg(FALSE, FALSE, "", FALSE, FALSE)
    [] id = 6 -> Msg(FALSE, FALSE, "location", FALSE, TRUE)
    [] id = 7 -> Msg(FALSE, FALSE, "sticker", FALSE, FALSE)
    [] id > 7 /\ id % 10 = 0 -> NoMessage
    [] OTHER -> Msg(TRUE, FALSE, "", FALSE, FALSE)

\* str(e) of what a call of the messaging client may raise: a rate limit, or
\* a timeout, whose text is empty
CallFaults == {"Telegram says: [420 FLOOD_WAIT_X]", ""}

\* what copy_message and forward_messages raise for a protected message
Restricted == "Telegram says: [400 CHAT_FORWARDS_RESTRICTED]"

\* what status_msg.edit may raise besides MessageNotModified
EditFaults == {"Telegram says: [420 FLOOD_WAIT_X]"}

NotModified == "Telegram says: [400 MESSAGE_NOT_MODIFIED]"

\* Optional[str]: <<>> is None, <<s>> is the string s
NoError == <<>>

Some(s) == <<s>>

\* Python's truth value of an Optional[str]
Truthy(e) == e # NoError /\ e[1] # ""

(***************************************************************************)
(* State.                                                                  *)
(***************************************************************************)
VARIABLES
    ACTIVE_BATCHES,  \* the store: a function from the registered user ids to the flag
    req,             \* req[h]: the locals of handle_message_link in handler task h
    directory,       \* the user directory: user id -> "absent", "member" or "banned"
    reply,           \* the last answer of cancel_command
    faults,          \* the number of calls that raised so far
    offer,           \* offer[h]: the texts task h may be handed
    errors           \* the texts str(e) of what a call of the client may raise

vars == <<ACTIVE_BATCHES, req, directory, reply, faults, offer, errors>>

\* the locals of a handler task that handles no message
Idle == [pc |-> "idle", user |-> 0, text |-> "", telegram_link |-> "", status |-> "", answer |-> "",
         chat_id |-> "", msg_id |-> 0, msg_start |-> 0, msg_end |-> 0, num_messages |-> 0,
         success_count |-> 0, fail_count |-> 0, last_error |-> NoError,
         original_msg |-> NoMessage, exc |-> "",
         in_try |-> FALSE, registered |-> FALSE, observed |-> 0, acked |-> -1, escaped |-> FALSE,
         fetches |-> <<>>, ops |-> <<>>, written |-> <<>>,
         tried |-> <<>>, results |-> <<>>, diags |-> <<>>, outcomes |-> <<>>, cancelled |-> FALSE, edit_raised |-> FALSE]

\* ACTIVE_BATCHES.get(u, False)
Get(ab, u) == IF u \in DOMAIN ab THEN ab[u] ELSE FALSE

\* ACTIVE_BATCHES[u] = False
Register(ab, u) == [v \in DOMAIN ab \cup {u} |-> IF v = u THEN FALSE ELSE ab[v]]

\* a cleanup that forgets the entries whose cancellation was requested
FinallyKeepsCancelled(ab, u) == IF Get(ab, u) THEN ab ELSE [v \in DOMAIN ab \ {u} |-> ab[v]]

\* a cleanup that empties the whole store
FinallyClear(ab, u) == [v \in {} |-> FALSE]

\* ACTIVE_BATCHES.pop(u, None)
Finally(ab, u) == [v \in DOMAIN ab \ {u} |-> ab[v]]

Frame(l, ab) == [l |-> l, ab |-> ab]

(***************************************************************************)
(* handle_message_link (src/bot.py), as the stretches of code between its  *)
(* awaits.  A frame is the pair of the handler's locals and the store; pc  *)
(* names the call the handler awaits, and "finally" that the try block was *)
(* left.                                                                   *)
(***************************************************************************)
\* leaving the try block (a return, the end of the block, or an exception)
Leave(f) == [f EXCEPT !.l.pc = "finally"]

\* handle_copy_error(status_msg, error) up to its await of status_msg.edit
HandleCopyError(f, error_msg, pc) == IF Suppressed(error_msg) THEN Leave(f) ELSE [f EXCEPT !.l.pc = pc, !.l.exc = error_msg]

\* str(Exception(last_error))
StrOf(e) == IF e = NoError THEN "None" ELSE e[1]

\* the reporting after the loop, lines 771-784
Report(f) == IF f.l.num_messages = 1 /\ ~Get(f.ab, f.l.user)
    THEN IF f.l.success_count = 1
         THEN [f EXCEPT !.l.pc = "edit_saved"]
         ELSE HandleCopyError(f, StrOf(f.l.last_error), "edit_classified")
    ELSE IF ~Get(f.ab, f.l.user)
         THEN [f EXCEPT !.l.pc = "edit_summary"]
         ELSE Leave(f)

\* the top of the iteration for f.l.msg_id, lines 744-753
LoopTop(f) == IF f.l.msg_id > f.l.msg_end
    THEN Report(f)
    ELSE IF Get(f.ab, f.l.user)
         THEN [f EXCEPT !.l.pc = "edit_cancelled", !.l.observed = f.l.msg_id]
         ELSE [f EXCEPT !.l.pc = "get_messages", !.l.fetches = Append(@, f.l.msg_id), !.l.ops = <<>>, !.l.tried = <<>>, !.l.results = <<>>, !.l.diags = <<>>]

\* an iteration that goes on without counting the outcome
CountedNowhere(f, error) == LET g == [f EXCEPT !.l.original_msg = NoMessage, !.l.outcomes = Append(@, error)]
    IN IF g.l.num_messages > 1
       THEN [g EXCEPT !.l.pc = "sleep"]
       ELSE [g EXCEPT !.l.pc = "edit_summary"]

\* an iteration that pauses between two ids only, not after the last one
CountedNoLastPause(f, error) == LET g == IF Truthy(error)
                              THEN [f EXCEPT !.l.fail_count = @ + 1, !.l.last_error = error, !.l.original_msg = NoMessage, !.l.outcomes = Append(@, error)]
                              ELSE [f EXCEPT !.l.success_count = @ + 1, !.l.original_msg = NoMessage, !.l.outcomes = Append(@, error)]
    IN IF g.l.num_messages > 1 /\ g.l.msg_id < g.l.msg_end
       THEN [g EXCEPT !.l.pc = "sleep"]
       ELSE LoopTop([g EXCEPT !.l.msg_id = @ + 1])

\* the rest of the iteration once copy_message_with_fallback returned
\* (copied_msg, error), lines 760-769
Counted(f, error) == LET g == IF Truthy(error)
                              THEN [f EXCEPT !.l.fail_count = @ + 1, !.l.last_error = error, !.l.original_msg = NoMessage, !.l.outcomes = Append(@, error)]
                              ELSE [f EXCEPT !.l.success_count = @ + 1, !.l.original_msg = NoMessage, !.l.outcomes = Append(@, error)]
    IN IF g.l.num_messages > 1
       THEN [g EXCEPT !.l.pc = "sleep"]
       ELSE LoopTop([g EXCEPT !.l.msg_id = @ + 1])

\* the check written with >=, which refuses a range of one id
RangeInvertedOrEqual(msg_start, msg_end) == msg_start >= msg_end

\* if msg_start > msg_end, line 723
RangeInverted(msg_start, msg_end) == msg_start > msg_end

\* no limit on the range
RangeUnlimited(num_messages) == FALSE

\* the check written with >=, which refuses a range of BATCH_LIMIT ids
RangeAtLeastLimit(num_messages) == num_messages >= BATCH_LIMIT

\* if num_messages > BATCH_LIMIT, line 728
RangeTooLarge(num_messages) == num_messages > BATCH_LIMIT

\* the texts a user may send
Texts == {"https://t.me/demo/1", "https://t.me/demo/2-2", "https://t.me/demo/2-4", "https://t.me/demo/4-2",
          "https://t.me/demo/1-101", "see https://telegram.me/demo/1", "t.me/demo/1", "hello"}

\* the texts of the runs about the batch limit
LimitTexts == {"https://t.me/demo/1-100", "https://t.me/demo/1-101"}

\* the texts of the runs about termination: a range of two messages and a
\* single link
LiveTexts == {"https://t.me/demo/2-3", "https://t.me/demo/1"}

\* the texts the second handler task is handed
SideTexts == {"https://t.me/demo/1", "https://t.me/demo/4-2", "hello"}

\* the texts of the runs about the parser: single links under both host
\* aliases, private and topic links, a range written with and without spaces
ParseTexts == {"https://t.me/demo/1", "http://t.me/demo/7", "https://telegram.me/demo/1", "http://telegram.me/demo/3",
               "https://t.me/c/1234/5", "https://t.me/c/1234/9/5", "https://t.me/demo/9/5", "https://telegram.me/c/1234/5",
               "https://t.me/demo/2-4", "https://t.me/demo/2 - 4",
               "https://t.me/demo/007", "https://t.me/demo/4-2", "http://t.me/my-chan/2-2"}

\* the locals of handle_message_link when it awaits message.reply for text:
\* lines 689-705
Received(text) == IF ~HasDomain(text) THEN [Idle EXCEPT !.pc = "reply_nodomain"]
    ELSE IF LinkStart(text) = 0 THEN [Idle EXCEPT !.pc = "reply_nolink"]
    ELSE [Idle EXCEPT !.pc = "reply_placeholder", !.telegram_link = LinkMatch(text)]

\* Received, tabulated over the texts of the model
Intake == [text \in Texts \cup LimitTexts \cup ParseTexts \cup LiveTexts |-> Received(text)]

\* parse_telegram_link, tabulated over the links found in the texts of the
\* model
Locators == [link \in {Intake[text].telegram_link : text \in DOMAIN Intake} |-> parse_telegram_link(link)]

\* the try block from its start to its first await, lines 707-744
TryBody(f) == LET parsed_link == Locators[f.l.telegram_link]
                  g == [f EXCEPT !.l.in_try = TRUE]
    IN IF parsed_link = None
       THEN [g EXCEPT !.l.pc = "edit_invalid"]
       ELSE LET msg_start == parsed_link.message_id_start
                msg_end == parsed_link.message_id_end
                num_messages == (msg_end - msg_start) + 1
                r == [g EXCEPT !.l.msg_start = msg_start, !.l.msg_end = msg_end, !.l.num_messages = num_messages]
            IN IF RangeInverted(msg_start, msg_end)
               THEN [r EXCEPT !.l.pc = "edit_inverted"]
               ELSE IF RangeTooLarge(num_messages)
                    THEN [r EXCEPT !.l.pc = "edit_toolarge"]
                    ELSE LET a == [r EXCEPT !.l.chat_id = parsed_link.channel, !.l.msg_id = msg_start,
                                            !.l.registered = TRUE, !.ab = Register(r.ab, r.l.user)]
                         IN IF num_messages > 1
                            THEN [a EXCEPT !.l.pc = "edit_progress"]
                            ELSE LoopTop(a)

\* the text of the status edit the handler awaits
EditText(l) == CASE l.pc = "edit_invalid" -> InvalidFormat
    [] l.pc = "edit_inverted" -> Inverted
    [] l.pc = "edit_toolarge" -> TooLarge(BATCH_LIMIT, l.num_messages)
    [] l.pc = "edit_progress" -> Progress(l.num_messages)
    [] l.pc = "edit_cancelled" -> CancelNotice
    [] l.pc = "edit_saved" -> Saved
    [] l.pc = "edit_summary" -> BatchComplete(l.success_count, l.fail_count)
    [] l.pc \in {"edit_classified", "edit_error"} -> ErrorResponse(l.exc)
    [] OTHER -> ""

EditPcs == {"edit_invalid", "edit_inverted", "edit_toolarge", "edit_progress", "edit_cancelled", "edit_saved", "edit_summary", "edit_classified", "edit_error"}

\* the outcomes of a call: it returns, or it raises text
Returns == [raised |-> FALSE, text |-> "", fault |-> FALSE]

Raises(text, fault) == [raised |-> TRUE, text |-> text, fault |-> fault]

Outcomes(texts) == {Returns} \cup (IF faults < MaxFaults THEN {Raises(e, TRUE) : e \in texts} ELSE {})

\* the handler task h takes the step that leads to frame f: the finally
\* clause runs when the try block was left, and the handler returns
Commit(h, f, o) == \E g \in {f} :
    /\ req' = [req EXCEPT ![h] = IF g.l.pc = "finally" THEN [g.l EXCEPT !.pc = "returned"] ELSE g.l]
    /\ ACTIVE_BATCHES' = IF g.l.pc = "finally" THEN Finally(g.ab, g.l.user) ELSE g.ab
    /\ faults' = IF o.fault THEN faults + 1 ELSE faults
    /\ UNCHANGED <<directory, reply, offer, errors>>

\* add_or_update_user(user): a user not in the directory is added to it
add_or_update_user(dir, u) == [dir EXCEPT ![u] = IF @ = "absent" THEN "member" ELSE @]

\* a lookup that reports nobody as banned
nobody_banned(dir, u) == FALSE

\* user_data and user_data.get('is_banned', False)
is_banned(dir, u) == dir[u] = "banned"

\* a text message of user u reaches handler task h: lines 679-705, up to the
\* await of message.reply
Start(h, u, text) ==
    /\ req[h].pc = "idle"
    /\ <<u, text>> \in offer[h]
    /\ directory' = add_or_update_user(directory, u)
    /\ req' = [req EXCEPT ![h] = IF is_banned(directory, u) THEN [Idle EXCEPT !.pc = "returned", !.user = u, !.text = text] ELSE [Intake[text] EXCEPT !.user = u, !.text = text]]
    /\ UNCHANGED <<ACTIVE_BATCHES, reply, faults, offer, errors>>

\* the awaited message.reply returns or raises; after the placeholder the try
\* block runs to its first await
ReplyReturns(h) ==
    /\ req[h].pc \in {"reply_nodomain", "reply_nolink", "reply_placeholder"}
    /\ \E o \in Outcomes(EditFaults) :
        LET l == req[h]
            f == IF o.raised THEN Frame([l EXCEPT !.pc = "returned", !.escaped = TRUE], ACTIVE_BATCHES)
                 ELSE IF l.pc = "reply_nodomain" THEN Frame([l EXCEPT !.pc = "returned", !.answer = "Please send a valid Telegram message link."], ACTIVE_BATCHES)
                 ELSE IF l.pc = "reply_nolink" THEN Frame([l EXCEPT !.pc = "returned", !.answer = "No valid Telegram link found in your message."], ACTIVE_BATCHES)
                 ELSE TryBody(Frame([l EXCEPT !.status = Processing, !.written = <<Processing>>], ACTIVE_BATCHES))
        IN Commit(h, f, o)

\* the loop without its break: the transfer of the current id goes on
CancelledNoBreak(f) == [f EXCEPT !.l.fail_count = (f.l.msg_end + 1) - f.l.msg_id, !.l.pc = "get_messages", !.l.fetches = Append(@, f.l.msg_id), !.l.ops = <<>>, !.l.tried = <<>>, !.l.results = <<>>, !.l.diags = <<>>]

\* the cancellation notice was written: the remaining ids are counted as
\* failed and the loop is left, lines 749-750
Cancelled(f) == Report([f EXCEPT !.l.fail_count = (f.l.msg_end + 1) - f.l.msg_id])

\* what follows the awaited status_msg.edit, by the place of the edit
AfterEdit(f, o) == CASE f.l.pc = "edit_error" -> Leave([f EXCEPT !.l.escaped = o.raised /\ ~Suppressed(o.text)])
    [] f.l.pc = "edit_classified" -> IF o.raised /\ ~Suppressed(o.text) THEN HandleCopyError(f, o.text, "edit_error") ELSE Leave(f)
    [] f.l.pc \notin {"edit_error", "edit_classified"} /\ o.raised -> HandleCopyError(f, o.text, "edit_error")
    [] f.l.pc = "edit_progress" /\ ~o.raised -> LoopTop(f)
    [] f.l.pc = "edit_cancelled" /\ ~o.raised -> Cancelled(f)
    [] OTHER -> Leave(f)

\* Telegram refuses an edit that changes nothing (MessageNotModified);
\* any other edit returns, or raises a fault
EditOutcomes(l) == IF EditText(l) = l.status THEN {Raises(NotModified, FALSE)} ELSE Outcomes(EditFaults)

\* the awaited status_msg.edit returns or raises
EditReturns(h) ==
    /\ req[h].pc \in EditPcs
    /\ \E o \in EditOutcomes(req[h]) :
        LET l == req[h]
            e == IF o.raised THEN [l EXCEPT !.edit_raised = @ \/ o.fault] ELSE [l EXCEPT !.status = EditText(l), !.written = Append(@, EditText(l))]
        IN Commit(h, AfterEdit(Frame(e, ACTIVE_BATCHES), o), o)

(***************************************************************************)
(* copy_message_with_fallback and send_message_by_type (src/bot.py).       *)
(***************************************************************************)
\* the send operation send_message_by_type picks, "" when it has none
SendOp(m) == IF m.text THEN "send_message"
    ELSE IF m.media \in {"photo", "video", "document", "audio", "voice", "sticker", "animation"} THEN "send_" \o m.media
    ELSE ""

\* a check that takes every fetched message to have content
NeverEmpty(m) == FALSE

\* not text and not caption and not media and not poll
IsEmpty(m) == ~m.text /\ ~m.caption /\ m.media = "" /\ ~m.poll

\* a transfer that starts with copy_message for every message
AfterFetchCopyFirst(f, m) == LET g == [f EXCEPT !.l.original_msg = m]
    IN IF ~m.found THEN Counted(f, Some("Message not found"))
       ELSE IF IsEmpty(m) THEN Counted(f, Some("Message is empty"))
       ELSE [g EXCEPT !.l.pc = "copy_message", !.l.ops = Append(@, "copy_message"), !.l.tried = <<"copy_message">>]

\* a transfer that hands polls to send_message_by_type too, which refuses them
AfterFetchManualPolls(f, m) == LET g == [f EXCEPT !.l.original_msg = m]
    IN IF ~m.found THEN Counted(f, Some("Message not found"))
       ELSE IF IsEmpty(m) THEN Counted(f, Some("Message is empty"))
       ELSE IF ~m.poll /\ SendOp(m) # "" THEN [g EXCEPT !.l.pc = "send", !.l.ops = Append(@, SendOp(m)), !.l.tried = <<"send_message_by_type">>]
       ELSE [g EXCEPT !.l.pc = "copy_message", !.l.ops = Append(@, "copy_message"), !.l.tried = <<"send_message_by_type", "copy_message">>, !.l.results = <<FALSE>>, !.l.diags = <<Some("Unsupported message type")>>]

\* the call copy_message_with_fallback makes for the fetched message m;
\* tried lists the strategies invoked for m, results whether each succeeded
\* and diags the diagnostic of each
AfterFetch(f, m) == LET g == [f EXCEPT !.l.original_msg = m]
    IN IF ~m.found THEN Counted(f, Some("Message not found"))
       ELSE IF IsEmpty(m) THEN Counted(f, Some("Message is empty"))
       ELSE IF ~m.poll /\ SendOp(m) # "" THEN [g EXCEPT !.l.pc = "send", !.l.ops = Append(@, SendOp(m)), !.l.tried = <<"send_message_by_type">>]
       ELSE IF ~m.poll THEN [g EXCEPT !.l.pc = "copy_message", !.l.ops = Append(@, "copy_message"), !.l.tried = <<"send_message_by_type", "copy_message">>, !.l.results = <<FALSE>>, !.l.diags = <<Some("Unsupported message type")>>]
       ELSE [g EXCEPT !.l.pc = "copy_message", !.l.ops = Append(@, "copy_message"), !.l.tried = <<"copy_message">>]

GetOutcomes(l) == IF l.chat_id # "demo" THEN {Raises("Telegram says: [400 USERNAME_NOT_OCCUPIED]", FALSE)} ELSE Outcomes(errors)

\* copy_message and forward_messages refuse a protected message
RelayOutcomes(l) == IF l.original_msg.protected THEN {Raises(Restricted, FALSE)} ELSE Outcomes(errors)

GetMessagesReturns(h) ==
    /\ req[h].pc = "get_messages"
    /\ \E o \in GetOutcomes(req[h]) :
        LET f == Frame(req[h], ACTIVE_BATCHES)
        IN Commit(h, IF o.raised THEN Counted(f, Some(o.text)) ELSE AfterFetch(f, Channel(f.l.msg_id)), o)

SendReturns(h) ==
    /\ req[h].pc = "send"
    /\ \E o \in Outcomes(errors) :
        LET f == Frame([req[h] EXCEPT !.results = Append(@, ~o.raised), !.diags = Append(@, IF o.raised THEN Some(o.text) ELSE NoError)], ACTIVE_BATCHES)
        IN Commit(h, IF o.raised THEN [f EXCEPT !.l.pc = "copy_message", !.l.ops = Append(@, "copy_message"), !.l.tried = Append(@, "copy_message")] ELSE Counted(f, NoError), o)

CopyReturns(h) ==
    /\ req[h].pc = "copy_message"
    /\ \E o \in RelayOutcomes(req[h]) :
        LET f == Frame([req[h] EXCEPT !.results = Append(@, ~o.raised), !.diags = Append(@, IF o.raised THEN Some(o.text) ELSE NoError)], ACTIVE_BATCHES)
        IN Commit(h, IF o.raised THEN [f EXCEPT !.l.pc = "forward_messages", !.l.ops = Append(@, "forward_messages"), !.l.tried = Append(@, "forward_messages")] ELSE Counted(f, NoError), o)

ForwardReturns(h) ==
    /\ req[h].pc = "forward_messages"
    /\ \E o \in RelayOutcomes(req[h]) :
        LET f == Frame([req[h] EXCEPT !.results = Append(@, ~o.raised), !.diags = Append(@, IF o.raised THEN Some(o.text) ELSE NoError)], ACTIVE_BATCHES)
        IN Commit(h, IF o.raised THEN Counted(f, Some(o.text)) ELSE Counted(f, NoError), o)

\* the pause of a batch ends: the next iteration starts
SleepReturns(h) ==
    /\ req[h].pc = "sleep"
    /\ Commit(h, LoopTop(Frame([req[h] EXCEPT !.msg_id = @ + 1], ACTIVE_BATCHES)), Returns)

(***************************************************************************)
(* cancel_command (src/bot.py).                                            *)
(***************************************************************************)
Banned == "You are banned from using this bot."

Requesting == "Requesting cancellation... The batch will stop shortly."

Already == "Cancellation is already in progress..."

NothingToCancel == "You have no active batch operation to cancel."

\* the first test written  if not ACTIVE_BATCHES.get(user_id)
cancel_command_falsy(ab, u) == IF ~Get(ab, u) THEN [ab |-> [v \in DOMAIN ab \cup {u} |-> IF v = u THEN TRUE ELSE ab[v]], answer |-> Requesting]
    ELSE [ab |-> ab, answer |-> Already]

\* the store and the answer after /cancel of user u, lines 506-514
cancel_command(ab, u) == IF u \in DOMAIN ab /\ ab[u] = FALSE THEN [ab |-> [ab EXCEPT ![u] = TRUE], answer |-> Requesting]
    ELSE IF u \in DOMAIN ab /\ ab[u] = TRUE THEN [ab |-> ab, answer |-> Already]
    ELSE [ab |-> ab, answer |-> NothingToCancel]

\* the calls of copy_message_with_fallback a handler may await
TransferPcs == {"get_messages", "send", "copy_message", "forward_messages"}

\* /cancel of user u is handled.  acked notes, for a batch of u with a
\* transfer in flight, the id of that transfer when the cancellation was
\* first accepted; cancelled notes that a cancellation was accepted while
\* the request of u was being handled
Cancel(u) ==
    /\ LET c == IF is_banned(directory, u) THEN [ab |-> ACTIVE_BATCHES, answer |-> Banned] ELSE cancel_command(ACTIVE_BATCHES, u)
       IN /\ ACTIVE_BATCHES' = c.ab
          /\ reply' = c.answer
          /\ req' = [h \in Handlers |-> IF c.answer = Requesting /\ req[h].user = u /\ req[h].pc \in TransferPcs /\ req[h].acked = -1
                                        THEN [req[h] EXCEPT !.acked = req[h].msg_id, !.cancelled = TRUE]
                                        ELSE IF c.answer = Requesting /\ req[h].user = u /\ req[h].pc \notin {"idle", "returned"}
                                             THEN [req[h] EXCEPT !.cancelled = TRUE]
                                             ELSE req[h]]
    /\ UNCHANGED <<directory, faults, offer, errors>>

(***************************************************************************)
(* The specification.                                                      *)
(***************************************************************************)
NoBatches == [u \in {} |-> FALSE]

Init ==
    /\ ACTIVE_BATCHES = NoBatches
    /\ req = [h \in Handlers |-> Idle]
    /\ directory \in {[u \in Users |-> IF u = 1 THEN "member" ELSE d] : d \in {"absent", "banned"}}
    /\ reply = ""
    /\ faults = 0
    /\ offer = [h \in Handlers |-> IF h = 1 THEN {1} \X Texts ELSE Users \X SideTexts]
    /\ errors = CallFaults

Next ==
    \/ \E h \in Handlers, u \in Users, text \in DOMAIN Intake : Start(h, u, text)
    \/ \E h \in Handlers : ReplyReturns(h)
    \/ \E h \in Handlers : EditReturns(h)
    \/ \E h \in Handlers : GetMessagesReturns(h)
    \/ \E h \in Handlers : SendReturns(h)
    \/ \E h \in Handlers : CopyReturns(h)
    \/ \E h \in Handlers : ForwardReturns(h)
    \/ \E h \in Handlers : SleepReturns(h)
    \/ \E u \in Users : Cancel(u)

Spec == Init /\ [][Next]_vars

\* the runs about the batch limit: the first task is handed a range of 100 or
\* of 101 ids, the second a text without a link, and no call raises a fault
InitLimit ==
    /\ ACTIVE_BATCHES = NoBatches
    /\ req = [h \in Handlers |-> Idle]
    /\ directory = [u \in Users |-> "member"]
    /\ reply = ""
    /\ faults = MaxFaults
    /\ offer = [h \in Handlers |-> IF h = 1 THEN {1} \X LimitTexts ELSE {<<1, "hello">>}]
    /\ errors = CallFaults

SpecLimit == InitLimit /\ [][Next]_vars

\* the runs about an outage: the connection is lost while a request is
\* handled, so that up to three calls in a row raise; faults starts three
\* below its cap
InitOutage ==
    /\ ACTIVE_BATCHES = NoBatches
    /\ req = [h \in Handlers |-> Idle]
    /\ directory = [u \in Users |-> "member"]
    /\ reply = ""
    /\ faults = MaxFaults - 3
    /\ offer = [h \in Handlers |-> IF h = 1 THEN {1} \X LiveTexts ELSE {<<1, "hello">>}]
    /\ errors = CallFaults

SpecOutage == InitOutage /\ [][Next]_vars

\* the runs about two users: each handler task is handed the requests of
\* one user, a range of two ids or a single link, and calls may raise
InitUsers ==
    /\ ACTIVE_BATCHES = NoBatches
    /\ req = [h \in Handlers |-> Idle]
    /\ directory = [u \in Users |-> "member"]
    /\ reply = ""
    /\ faults = 0
    /\ offer = [h \in Handlers |-> {h} \X LiveTexts]
    /\ errors = CallFaults

SpecUsers == InitUsers /\ [][Next]_vars

\* the call handler task h awaits returns or raises
Returning(h) == ReplyReturns(h) \/ EditReturns(h) \/ GetMessagesReturns(h) \/ SendReturns(h) \/ CopyReturns(h) \/ ForwardReturns(h) \/ SleepReturns(h)

\* the runs about termination: a range of two ids beside a plain text, with
\* calls that may raise; two link requests of the same user interleaved,
\* with calls that return; or the texts of the runs about the batch limit
InitLive ==
    \/ /\ ACTIVE_BATCHES = NoBatches
       /\ req = [h \in Handlers |-> Idle]
       /\ directory = [u \in Users |-> "member"]
       /\ reply = ""
       /\ \/ /\ faults = 0
             /\ offer = [h \in Handlers |-> IF h = 1 THEN {<<1, "https://t.me/demo/2-3">>} ELSE {<<1, "hello">>}]
          \/ /\ faults = MaxFaults
             /\ offer = [h \in Handlers |-> {1} \X LiveTexts]
       /\ errors = CallFaults
    \/ InitLimit

\* the runs in which every awaited call returns or raises
SpecLive == InitLive /\ [][Next]_vars /\ \A h \in Handlers : WF_vars(Returning(h))

\* the texts of the runs about the Error Classifier: Telegram's error codes,
\* texts that carry two codes, texts that carry none
ErrorTexts == {"Telegram says: [400 CHAT_ADMIN_REQUIRED]", "Telegram says: [400 USER_NOT_PARTICIPANT]",
               "Telegram says: [400 MESSAGE_ID_INVALID]", "Telegram says: [400 CHANNEL_PRIVATE]",
               "Telegram says: [400 PEER_ID_INVALID]", "Telegram says: [420 FLOOD_WAIT_X]",
               "Message is empty", "Telegram says: [420 FLOOD_WAIT_X] after PEER_ID_INVALID",
               "Telegram says: [400 MESSAGE_NOT_MODIFIED]", "Telegram says: [400 MESSAGE_NOT_MODIFIED] after FLOOD_WAIT",
               "Telegram says: [400 USERNAME_NOT_OCCUPIED]", "Connection lost"}

\* the runs about the Error Classifier: the calls of the client may raise any
\* of ErrorTexts; the first task is handed a single link or a range
InitErr ==
    /\ ACTIVE_BATCHES = NoBatches
    /\ req = [h \in Handlers |-> Idle]
    /\ directory = [u \in Users |-> "member"]
    /\ reply = ""
    /\ faults = 0
    /\ offer = [h \in Handlers |-> IF h = 1 THEN {<<1, "https://t.me/demo/1">>, <<1, "https://t.me/demo/2-4">>} ELSE {<<1, "hello">>}]
    /\ errors = ErrorTexts

SpecErr == InitErr /\ [][Next]_vars

\* the runs about the parser: the first task is handed one of ParseTexts
InitParse ==
    /\ ACTIVE_BATCHES = NoBatches
    /\ req = [h \in Handlers |-> Idle]
    /\ directory = [u \in Users |-> "member"]
    /\ reply = ""
    /\ faults = 0
    /\ offer = [h \in Handlers |-> IF h = 1 THEN {1} \X ParseTexts ELSE {<<1, "hello">>}]
    /\ errors = CallFaults

SpecParse == InitParse /\ [][Next]_vars

(***************************************************************************)
(* src/main.py: the owner-only variant, whose parse_telegram_link knows    *)
(* four link shapes, and its handler handle_message.                       *)
(***************************************************************************)
\* the pieces of r between its slashes
RECURSIVE Segments(_)
Segments(r) == IF IndexOf(r, "/") = 0 THEN <<r>> ELSE <<SubSeq(r, 1, IndexOf(r, "/") - 1)>> \o Segments(DropFirst(r, IndexOf(r, "/")))

\* int(s) of a digit string with an optional sign
IntOf(s) == IF StartsWith(s, "-") THEN 0 - ToInt(DropFirst(s, 1)) ELSE ToInt(s)

\* an order of the patterns in which the public shapes come first
main_patterns_public_first == <<"public_topic", "public", "private_topic", "private">>

\* the order in which the patterns are tried, lines 48-53
main_patterns == <<"private_topic", "private", "public_topic", "public">>

\* re.match(pattern, link) for the pattern of link_type: \d+ and [^/]+ match
\* within one path segment, and $ anchors the last one
MainMatch(link_type, link) == LET g == Segments(AfterTMe(link)) IN
    /\ HasTMe(link)
    /\ CASE link_type = "private_topic" -> Len(g) = 4 /\ g[1] = "c" /\ AllDigits(g[2]) /\ AllDigits(g[3]) /\ AllDigits(g[4])
         [] link_type = "private" -> Len(g) = 3 /\ g[1] = "c" /\ AllDigits(g[2]) /\ AllDigits(g[3])
         [] link_type = "public_topic" -> Len(g) = 3 /\ Len(g[1]) >= 1 /\ AllDigits(g[2]) /\ AllDigits(g[3])
         [] link_type = "public" -> Len(g) = 2 /\ Len(g[1]) >= 1 /\ AllDigits(g[2])
         [] OTHER -> FALSE

\* a chat id read from the digits without their leading zeros
chat_id_of_value(digits) == IntOf("-100" \o ToString(ToInt(digits)))

\* int(f"-100{match.group(1)}"), lines 68 and 75
chat_id_of(digits) == IntOf("-100" \o digits)

\* the dictionary returned for the first pattern that matches, lines 55-85
MainLocator(link_type, link) == LET g == Segments(AfterTMe(link)) IN
    CASE link_type = "private_topic" -> [type |-> "private_topic", chat_id |-> chat_id_of(g[2]), channel |-> "", topic_id |-> <<ToInt(g[3])>>, message_id |-> ToInt(g[4])]
      [] link_type = "private" -> [type |-> "private", chat_id |-> chat_id_of(g[2]), channel |-> "", topic_id |-> <<>>, message_id |-> ToInt(g[3])]
      [] link_type = "public_topic" -> [type |-> "public_topic", chat_id |-> 0, channel |-> g[1], topic_id |-> <<ToInt(g[2])>>, message_id |-> ToInt(g[3])]
      [] OTHER -> [type |-> "public", chat_id |-> 0, channel |-> g[1], topic_id |-> <<>>, message_id |-> ToInt(g[2])]

\* parse_telegram_link of src/main.py
main_parse_telegram_link(text) == LET link == Strip(text) IN
    IF \E k \in 1..Len(main_patterns) : MainMatch(main_patterns[k], link)
    THEN MainLocator(main_patterns[CHOOSE k \in 1..Len(main_patterns) : MainMatch(main_patterns[k], link) /\ \A j \in 1..(k - 1) : ~MainMatch(main_patterns[j], link)], link)
    ELSE None

\* handle_copy_error of src/main.py
main_handle_copy_error(error_msg) ==
    IF Contains(error_msg, "CHAT_ADMIN_REQUIRED") THEN "Bot needs admin rights in the source channel."
    ELSE IF Contains(error_msg, "USER_NOT_PARTICIPANT") THEN "Bot is not a member of the source channel."
    ELSE IF Contains(error_msg, "MESSAGE_ID_INVALID") THEN "Message not found or invalid message ID."
    ELSE IF Contains(error_msg, "CHANNEL_PRIVATE") THEN "Cannot access private channel. Bot needs to be added to the channel."
    ELSE IF Contains(error_msg, "PEER_ID_INVALID") THEN "Invalid channel/chat ID. Make sure the link is correct."
    ELSE IF Contains(error_msg, "FLOOD_WAIT") THEN "Rate limited. Please try again later."
    ELSE IF Contains(error_msg, "Message is empty") THEN "The message appears to be empty or has no content to copy."
    ELSE IF Contains(error_msg, "copy_message") THEN "Cannot copy this message. It might be a service message or restricted content."
    ELSE "Error: " \o error_msg

\* the texts the owner may send to the variant of src/main.py
MainTexts == {"https://t.me/demo/5", "http://t.me/demo/9/5", "https://t.me/c/5", "https://t.me/c/1234/5", "http://t.me/c/007/5",
              "https://t.me/c/1234/9/5", "https://t.me/c/1/9/5", "https://t.me/c/12a/5", "https://t.me/c/1234/5/",
              "https://t.me/c/1234/9/5/7", "https://telegram.me/c/1234/5", "see https://t.me/c/1234/5 please", "t.me/c/1234/5", "hello"}

\* the errors copy_message_with_media may return
MainErrors == {"Message not found", "Telegram says: [400 CHANNEL_PRIVATE]"}

\* the locals of handle_message in a task that handles no message
MainIdle == [pc |-> "idle", owner |-> TRUE, text |-> "", telegram_link |-> "", parsed |-> None,
             from_chat_id |-> <<>>, message_id |-> 0, message_thread_id |-> <<>>, status |-> "", answer |-> ""]

\* a text message reaches handle_message: lines 204-228, up to message.reply
main_handle_message(h, owner, text) ==
    /\ req[h].pc = "idle"
    /\ req' = [req EXCEPT ![h] = [MainIdle EXCEPT !.owner = owner, !.text = text,
                                   !.pc = IF ~owner THEN "reply_denied" ELSE IF ~HasDomain(text) THEN "reply_nodomain" ELSE IF LinkStart(text) = 0 THEN "reply_nolink" ELSE "reply_placeholder",
                                   !.telegram_link = IF owner /\ HasDomain(text) /\ LinkStart(text) # 0 THEN LinkMatch(text) ELSE ""]]
    /\ UNCHANGED <<ACTIVE_BATCHES, directory, reply, faults, offer, errors>>

\* message.reply returns; after the placeholder the link is parsed and the
\* transfer is called with the chat, the id and the topic of the locator:
\* lines 228-304
MainReplyReturns(h) ==
    /\ req[h].pc \in {"reply_denied", "reply_nodomain", "reply_nolink", "reply_placeholder"}
    /\ LET l == req[h]
           parsed_link == main_parse_telegram_link(l.telegram_link)
       IN req' = [req EXCEPT ![h] =
            IF l.pc = "reply_denied" THEN [l EXCEPT !.pc = "returned", !.answer = "Access Denied!"]
            ELSE IF l.pc = "reply_nodomain" THEN [l EXCEPT !.pc = "returned", !.answer = "Please send a valid Telegram message link."]
            ELSE IF l.pc = "reply_nolink" THEN [l EXCEPT !.pc = "returned", !.answer = "No valid Telegram link found."]
            ELSE IF parsed_link = None THEN [l EXCEPT !.pc = "edit_invalid", !.status = "Processing..."]
            ELSE [l EXCEPT !.pc = "copy_message_with_media", !.status = "Processing...", !.parsed = parsed_link,
                           !.from_chat_id = IF parsed_link.type \in {"private", "private_topic"} THEN <<parsed_link.chat_id>> ELSE <<parsed_link.channel>>,
                           !.message_id = parsed_link.message_id,
                           !.message_thread_id = IF parsed_link.type \in {"public_topic", "private_topic"} THEN parsed_link.topic_id ELSE <<>>]]
    /\ UNCHANGED <<ACTIVE_BATCHES, directory, reply, faults, offer, errors>>

\* copy_message_with_media returned (copied_msg, error): the handler awaits
\* the edit of the confirmation or of the classified error
MainTransferReturns(h) ==
    /\ req[h].pc = "copy_message_with_media"
    /\ \E error \in {NoError} \cup {Some(e) : e \in MainErrors} :
        req' = [req EXCEPT ![h] = [req[h] EXCEPT !.pc = "edit_result",
                    !.answer = IF Truthy(error) THEN main_handle_copy_error(error[1])
                               ELSE IF req[h].parsed.type = "public_topic" THEN "Content saved from topic " \o ToString(req[h].parsed.topic_id[1]) \o "!"
                               ELSE IF req[h].parsed.type = "private_topic" THEN "Content saved from private topic " \o ToString(req[h].parsed.topic_id[1]) \o "!"
                               ELSE "Content saved successfully!"]]
    /\ UNCHANGED <<ACTIVE_BATCHES, directory, reply, faults, offer, errors>>

\* the awaited status_msg.edit returns and the handler with it
MainEditReturns(h) ==
    /\ req[h].pc \in {"edit_invalid", "edit_result"}
    /\ req' = [req EXCEPT ![h] = [req[h] EXCEPT !.pc = "returned", !.status = IF req[h].pc = "edit_invalid" THEN "Invalid Telegram link format." ELSE req[h].answer]]
    /\ UNCHANGED <<ACTIVE_BATCHES, directory, reply, faults, offer, errors>>

InitMain ==
    /\ ACTIVE_BATCHES = NoBatches
    /\ req = [h \in Handlers |-> MainIdle]
    /\ directory = [u \in Users |-> "member"]
    /\ reply = ""
    /\ faults = 0
    /\ offer = [h \in Handlers |-> {}]
    /\ errors = MainErrors

NextMain ==
    \/ \E h \in Handlers, owner \in BOOLEAN, text \in MainTexts : main_handle_message(h, owner, text)
    \/ \E h \in Handlers : MainReplyReturns(h)
    \/ \E h \in Handlers : MainTransferReturns(h)
    \/ \E h \in Handlers : MainEditReturns(h)

SpecMain == InitMain /\ [][NextMain]_vars

(***************************************************************************)
(* The admin commands of src/bot.py: /admin, /ban, /unban and the callback *)
(* handler of the admin panel.  In these runs req is the audit of the      *)
(* commands handled so far and reply the last answer, with its receiver.   *)
(***************************************************************************)
\* Config.OWNER_ID, a user id that Config.load requires to be non-zero
OWNER_ID == 9

\* a test that takes every sender with an id for the owner
is_owner_any(user_id) == user_id # 0

\* is_owner(user_id), lines 266-268
is_owner(user_id) == user_id = OWNER_ID

\* the senders of admin commands, and the ids of the user directory
AdminUsers == Users \cup {OWNER_ID}

\* what follows /ban or /unban in message.text: nothing, a word, user ids
BanArgs == {"", "abc", "1", "2", "9"}

\* callback_query.data
CallbackData == {"admin_stats", "view_all_users", "admin_help_ban", "other"}

\* set_ban_status(user_id, status): update of the record of user_id, which
\* fails when there is none (lines 190-201)
set_ban_status(dir, user_id, status) == IF user_id \in DOMAIN dir /\ dir[user_id] # "absent"
    THEN [ok |-> TRUE, dir |-> [dir EXCEPT ![user_id] = IF status THEN "banned" ELSE "member"]]
    ELSE [ok |-> FALSE, dir |-> dir]

\* get_user_count(), lines 203-214
get_user_count(dir) == Cardinality({v \in DOMAIN dir : dir[v] # "absent"})

\* get_all_users_from_db(): the rows (user id, is_banned), lines 216-231
get_all_users_from_db(dir) == {<<v, dir[v] = "banned">> : v \in {w \in DOMAIN dir : dir[w] # "absent"}}

Answer(to, kind, body) == [to |-> to, kind |-> kind, body |-> body]

NoAnswer == Answer(0, "", <<>>)

\* the audit after user u was answered with a and the directory became dir
Audit(u, a, dir) == [changed_by |-> IF dir # directory THEN req.changed_by \cup {u} ELSE req.changed_by,
                     disclosed_to |-> IF a.kind \in {"stats", "users"} THEN req.disclosed_to \cup {a.to} ELSE req.disclosed_to]

\* an admin handler of sender u ends with the answer a (NoAnswer: it sent
\* none) and the directory dir
AdminStep(u, a, dir) ==
    /\ directory' = dir
    /\ reply' = IF a = NoAnswer THEN reply ELSE a
    /\ req' = Audit(u, a, dir)
    /\ UNCHANGED <<ACTIVE_BATCHES, faults, offer, errors>>

\* /admin of user u, lines 519-548
admin_panel_command(u) ==
    IF ~is_owner(u) THEN AdminStep(u, NoAnswer, directory)
    ELSE AdminStep(u, Answer(u, "stats", <<get_user_count(directory)>>), directory)

\* /ban and /unban of user u with the argument arg, lines 550-602
BanCommand(u, arg, status) ==
    IF ~is_owner(u) THEN AdminStep(u, NoAnswer, directory)
    ELSE IF arg = "" THEN AdminStep(u, Answer(u, "usage", <<>>), directory)
    ELSE IF ~AllDigits(arg) THEN AdminStep(u, Answer(u, "invalid", <<>>), directory)
    ELSE LET r == set_ban_status(directory, ToInt(arg), status)
         IN AdminStep(u, Answer(u, IF r.ok THEN (IF status THEN "banned" ELSE "unbanned") ELSE "failed", <<ToInt(arg)>>), r.dir)

ban_user_command(u, arg) == BanCommand(u, arg, TRUE)

unban_user_command(u, arg) == BanCommand(u, arg, FALSE)

\* a button of the admin panel pressed by user u, lines 606-665
admin_callback_handler(u, data) ==
    IF ~is_owner(u) THEN AdminStep(u, Answer(u, "denied", <<>>), directory)
    ELSE IF data = "admin_stats" THEN AdminStep(u, Answer(u, "stats", <<get_user_count(directory)>>), directory)
    ELSE IF data = "view_all_users"
         THEN IF get_all_users_from_db(directory) = {} THEN AdminStep(u, Answer(u, "nousers", <<>>), directory)
              ELSE AdminStep(u, Answer(u, "users", <<get_all_users_from_db(directory)>>), directory)
    ELSE IF data = "admin_help_ban" THEN AdminStep(u, Answer(u, "help", <<>>), directory)
    ELSE AdminStep(u, NoAnswer, directory)

InitAdmin ==
    /\ ACTIVE_BATCHES = NoBatches
    /\ req = [changed_by |-> {}, disclosed_to |-> {}]
    /\ directory \in [AdminUsers -> {"absent", "member"}]
    /\ reply = NoAnswer
    /\ faults = 0
    /\ offer = [h \in Handlers |-> {}]
    /\ errors = {}

NextAdmin ==
    \/ \E u \in AdminUsers : admin_panel_command(u)
    \/ \E u \in AdminUsers, arg \in BanArgs : ban_user_command(u, arg)
    \/ \E u \in AdminUsers, arg \in BanArgs : unban_user_command(u, arg)
    \/ \E u \in AdminUsers, data \in CallbackData : admin_callback_handler(u, data)

SpecAdmin == InitAdmin /\ [][NextAdmin]_vars

(***************************************************************************)
(* The claims.                                                             *)
(***************************************************************************)
Range(seq) == {seq[i] : i \in 1..Len(seq)}

\* the largest message id of the range links the claims quantify over
MaxId == 4

\* the link of the range A-B of the channel demo
RangeLink(A, B) == "https://t.me/demo/" \o ToString(A) \o "-" \o ToString(B)

RangeLinks == [A \in 1..MaxId, B \in 1..MaxId |-> RangeLink(A, B)]

\* a status that ends a request: any but the two "Processing" texts
Terminal(s) == s # Processing /\ ~StartsWith(s, "Processing ")

\* handler task h returns in this step
ReturnsNow(h) == req[h].pc # "returned" /\ req'[h].pc = "returned"

\* C1: when a handler that reached its try block returns (after a rejection,
\* a completed or cancelled loop, or an exception), the store holds no entry
\* for the requesting user at that moment.
C1_Cleanup == [][\A h \in Handlers : (ReturnsNow(h) /\ req'[h].in_try) => req'[h].user \notin DOMAIN ACTIVE_BATCHES']_vars

\* a registered request whose status edit raised has returned, and its user
\* has no entry
C1_Witness == \E h \in Handlers : req[h].pc = "returned" /\ req[h].registered /\ req[h].exc \in EditFaults /\ req[h].user \notin DOMAIN ACTIVE_BATCHES

\* the three cases of the cancellation protocol for user u, on a step
CancelProtocol(u) ==
    /\ (u \in DOMAIN ACTIVE_BATCHES /\ ACTIVE_BATCHES[u] = FALSE) => (ACTIVE_BATCHES' = [ACTIVE_BATCHES EXCEPT ![u] = TRUE] /\ reply' = Requesting)
    /\ (u \in DOMAIN ACTIVE_BATCHES /\ ACTIVE_BATCHES[u] = TRUE) => (ACTIVE_BATCHES' = ACTIVE_BATCHES /\ reply' = Already)
    /\ u \notin DOMAIN ACTIVE_BATCHES => (ACTIVE_BATCHES' = ACTIVE_BATCHES /\ reply' = NothingToCancel)

\* C2, as stated: every /cancel of a user u sets the flag of u to true iff an
\* entry of u exists and is false (answer: requested); answers "already in
\* progress" and changes nothing if the flag is true; answers "no active
\* batch operation" and changes nothing if u has no entry.
C2_Original == [][\A u \in Users : Cancel(u) => CancelProtocol(u)]_vars

\* C2, amended: the same three cases, for every /cancel of a user who is not
\* banned (a banned user is answered with the ban notice).
C2_CancelProtocol == [][\A u \in Users : (Cancel(u) /\ ~is_banned(directory, u)) => CancelProtocol(u)]_vars

\* a cancellation was accepted: the answer is "requested" and a flag is true
C2_Witness == reply = Requesting /\ \E u \in Users : Get(ACTIVE_BATCHES, u)

\* C3: once the loop has seen the flag at the top of the iteration for id m,
\* the handler awaits no transfer call and no pause any more, every id it
\* fetched is below m, and the edit it issues is the cancellation notice,
\* which is the status written unless that edit raised.
C3_StopsOnCancel == \A h \in Handlers : req[h].observed > 0 =>
    /\ req[h].pc \notin TransferPcs \cup {"sleep"}
    /\ \A i \in 1..Len(req[h].fetches) : req[h].fetches[i] < req[h].observed
    /\ \/ req[h].pc = "edit_cancelled" /\ EditText(req[h]) = CancelNotice
       \/ CancelNotice \in Range(req[h].written)
       \/ req[h].exc \in EditFaults

\* a batch was cancelled before its last id, after a transfer, and ended with
\* the cancellation notice
C3_Witness == \E h \in Handlers : req[h].pc = "returned" /\ req[h].observed > req[h].msg_start /\ req[h].observed < req[h].msg_end /\ req[h].status = CancelNotice

\* C4: every batch that passed the preconditions and ended without an
\* exception has success_count + fail_count equal to the number of ids of
\* its range (on cancellation the earlier failures are kept).
C4_CountConservation == \A h \in Handlers : (req[h].pc = "returned" /\ req[h].registered /\ faults = 0) => req[h].success_count + req[h].fail_count = req[h].num_messages

\* C5: every request whose placeholder was created has, when its handler
\* returns, exactly one terminal status written to it (here: in the runs in
\* which no call raised).
C5_OneTerminalStatus == \A h \in Handlers : (req[h].pc = "returned" /\ req[h].status # "" /\ faults = 0) => Cardinality({i \in 1..Len(req[h].written) : Terminal(req[h].written[i])}) = 1

\* C6: once the cancellation notice was written for a request, it stays the
\* status of that request: no summary or confirmation is written after it.
C6_CancelPrecedence == \A h \in Handlers : CancelNotice \in Range(req[h].written) => req[h].status = CancelNotice

\* C7: when /cancel was accepted while the transfer of id k was in flight,
\* the loop fetches no id beyond k, and when it sees the flag the outcomes of
\* all ids up to k are counted.
C7_Cooperative == \A h \in Handlers : req[h].acked >= 0 =>
    /\ \A i \in 1..Len(req[h].fetches) : req[h].fetches[i] <= req[h].acked
    /\ req[h].pc = "edit_cancelled" => req[h].success_count + req[h].fail_count = req[h].observed - req[h].msg_start

\* C8: a request with range-start <= range-end passes the preconditions
\* (registers and fetches) iff its range holds at most 100 ids; a larger
\* range fetches nothing, registers nothing and is answered with the
\* range-too-large status.
C8_BatchLimit == \A h \in Handlers : (req[h].in_try /\ req[h].num_messages >= 1) =>
    /\ req[h].num_messages = (req[h].msg_end - req[h].msg_start) + 1
    /\ req[h].registered <=> req[h].num_messages <= 100
    /\ req[h].fetches # <<>> => req[h].num_messages <= 100
    /\ (req[h].registered /\ req[h].pc = "returned" /\ req[h].observed # req[h].msg_start) => req[h].fetches # <<>>
    /\ req[h].num_messages > 100 => (req[h].pc = "edit_toolarge" \/ (req[h].pc = "returned" /\ req[h].status = TooLarge(100, req[h].num_messages)))

\* a range of exactly 100 ids was accepted and all its ids were fetched
C8_Witness == \E h \in Handlers : req[h].pc = "returned" /\ req[h].num_messages = 100 /\ Len(req[h].fetches) = 100

\* C9: for a range link A-B the locator has range-start A and range-end B
\* also when A > B; such a request registers nothing, fetches nothing and is
\* answered with the error status; a link with A = B is accepted as a single
\* message.
C9_InvertedRange == \A h \in Handlers : \A A, B \in 1..MaxId : (req[h].in_try /\ req[h].telegram_link = RangeLinks[A, B]) =>
    /\ req[h].msg_start = A /\ req[h].msg_end = B
    /\ A > B => /\ ~req[h].registered
                /\ req[h].fetches = <<>>
                /\ req[h].pc = "edit_inverted" \/ Inverted \in Range(req[h].written) \/ req[h].exc \in EditFaults
    /\ A = B => req[h].registered /\ req[h].num_messages = 1

\* the request for the range 4-2 has returned with the error status
C9_Witness == \E h \in Handlers : req[h].pc = "returned" /\ req[h].telegram_link = "https://t.me/demo/4-2" /\ req[h].msg_start = 4 /\ req[h].msg_end = 2 /\ req[h].status = Inverted

\* C10: the step in which a request that was rejected before the loop
\* returns leaves the store as it was.
C10_RejectedNoMutation == [][\A h \in Handlers : (ReturnsNow(h) /\ ~req'[h].registered) => ACTIVE_BATCHES' = ACTIVE_BATCHES]_vars

\* the three strategies of a transfer, in the order of the fallback chain
Chain == <<"send_message_by_type", "copy_message", "forward_messages">>

IsPrefix(s, t) == Len(s) <= Len(t) /\ SubSeq(t, 1, Len(s)) = s

Last(seq) == seq[Len(seq)]

\* the calls of the three strategies a handler may await
StrategyPcs == {"send", "copy_message", "forward_messages"}

\* C11: for a fetched, non-empty message that is no poll the strategies are
\* invoked in the order manual send, copy_message, forward_messages, each at
\* most once; a strategy is invoked iff the one before it failed; and the
\* transfer returns success iff one of them succeeded.
C11_FallbackChain == \A h \in Handlers : LET l == req[h]
                                            n == Len(l.tried)
    IN (l.fetches # <<>> /\ n > 0 /\ ~Channel(Last(l.fetches)).poll) =>
        /\ IsPrefix(l.tried, Chain)
        /\ Len(l.results) = (IF l.pc \in StrategyPcs THEN n - 1 ELSE n)
        /\ \A i \in 1..(n - 1) : l.results[i] = FALSE
        /\ (Len(l.results) = n /\ l.results[n] = FALSE) => n = 3
        /\ Len(l.results) = n => (Len(l.outcomes) = Len(l.fetches) /\ (Last(l.outcomes) = NoError <=> l.results[n]))

\* all three strategies were invoked for the photo, and all three failed
C11_Witness == \E h \in Handlers : req[h].tried = Chain /\ req[h].results = <<FALSE, FALSE, FALSE>> /\ req[h].ops = <<"send_photo", "copy_message", "forward_messages">> /\ Last(req[h].outcomes) = Some(Restricted)

\* C12: when the fetch returns no message, or a message without text,
\* caption, media and poll, the transfer returns the failure "Message not
\* found" or "Message is empty" and no send, copy_message or
\* forward_messages is called for that id.
C12_NoFallbackForAbsent == \A h \in Handlers : LET l == req[h] IN \A i \in 1..Len(l.fetches) :
    LET m == Channel(l.fetches[i]) IN (~m.found \/ (~m.text /\ ~m.caption /\ m.media = "" /\ ~m.poll)) =>
        /\ i = Len(l.fetches) => (l.ops = <<>> /\ l.tried = <<>> /\ l.pc \notin StrategyPcs)
        /\ i <= Len(l.outcomes) => l.outcomes[i] = (IF ~m.found THEN Some("Message not found") ELSE Some("Message is empty"))

\* the batch met a missing id and an empty message and went on
C12_Witness == \E h \in Handlers : Len(req[h].outcomes) >= 6 /\ req[h].outcomes[2] = Some("Message not found") /\ req[h].outcomes[5] = Some("Message is empty") /\ req[h].fetches[6] = 6

\* C13: for a fetched message that carries a poll no manual send is issued:
\* the first strategy is copy_message, and forward_messages is invoked only
\* if copy_message failed.
C13_PollPath == \A h \in Handlers : LET l == req[h]
    IN (l.fetches # <<>> /\ Channel(Last(l.fetches)).poll) =>
        /\ \A i \in 1..Len(l.ops) : ~StartsWith(l.ops[i], "send")
        /\ l.pc # "send"
        /\ IsPrefix(l.tried, <<"copy_message", "forward_messages">>)
        /\ Len(l.tried) = 2 => l.results[1] = FALSE

\* the poll was forwarded after copy_message failed
C13_Witness == \E h \in Handlers : req[h].fetches # <<>> /\ Channel(Last(req[h].fetches)).poll /\ req[h].tried = <<"copy_message", "forward_messages">> /\ req[h].results = <<FALSE, TRUE>>

\* the number of transfers of l that returned success, and that returned failure
Delivered(l) == Cardinality({i \in 1..Len(l.outcomes) : l.outcomes[i] = NoError})

Undelivered(l) == Cardinality({i \in 1..Len(l.outcomes) : l.outcomes[i] # NoError})

\* the request of l was registered, ran to the end of its range without a
\* cancellation being accepted meanwhile, and no status edit raised a fault
RanToEnd(l) == l.pc = "returned" /\ l.registered /\ ~l.cancelled /\ ~l.edit_raised /\ ~l.escaped /\ Len(l.outcomes) = l.num_messages

\* C14: an uncancelled single-message request whose transfer succeeded ends
\* with the success confirmation; one whose transfer failed ends with the
\* Error Classifier's message for the diagnostic of that transfer (no edit
\* when the classifier suppresses it); an uncancelled request of several
\* messages that ran to the end ends with the summary carrying the two
\* counts.
C14_Reporting == \A h \in Handlers : LET l == req[h] IN RanToEnd(l) =>
    IF l.num_messages = 1
    THEN IF l.outcomes[1] = NoError THEN l.status = Saved
         ELSE IF Suppressed(l.outcomes[1][1]) THEN l.status = Processing
         ELSE l.status = ErrorResponse(l.outcomes[1][1]) /\ l.status # Saved
    ELSE l.status = BatchComplete(l.success_count, l.fail_count)

\* the indices of the transfers of l that returned failure
FailedAt(l) == {i \in 1..Len(l.outcomes) : l.outcomes[i] # NoError}

\* C15: for a batch that ran to the end without cancellation, success_count
\* is the number of ids whose transfer returned success, fail_count the
\* number of ids whose transfer returned failure, and last_error the
\* diagnostic of the highest failed id (None when no id failed).
C15_Counts == \A h \in Handlers : LET l == req[h] IN (l.registered /\ ~l.cancelled /\ Len(l.outcomes) = l.num_messages) =>
    /\ l.success_count = Delivered(l)
    /\ l.fail_count = Undelivered(l)
    /\ l.last_error = (IF FailedAt(l) = {} THEN NoError ELSE l.outcomes[CHOOSE i \in FailedAt(l) : \A j \in FailedAt(l) : j <= i])

\* the request of l is a single-message request whose transfer returned the
\* failure e, with no cancellation accepted meanwhile and no fault of a
\* status edit: handle_copy_error is called with e (line 776)
Classifies(l, e) == l.num_messages = 1 /\ l.outcomes = <<Some(e)>> /\ e # "" /\ ~l.cancelled /\ ~l.edit_raised

\* C16: for an error text that contains MESSAGE_NOT_MODIFIED the classifier
\* makes no status edit at all, also when the text contains a table pattern.
C16_Suppression == \A h \in Handlers : \A e \in ErrorTexts : (Classifies(req[h], e) /\ Contains(e, "MESSAGE_NOT_MODIFIED")) =>
    /\ req[h].pc = "returned"
    /\ req[h].written = <<Processing>>

\* the diagnostic carried MESSAGE_NOT_MODIFIED and a table pattern, and the
\* request returned without an edit
C16_Witness == \E h \in Handlers : Classifies(req[h], "Telegram says: [400 MESSAGE_NOT_MODIFIED] after FLOOD_WAIT") /\ req[h].pc = "returned" /\ req[h].status = Processing

\* s is what the table gives for e: the message of the first entry, in table
\* order, whose pattern is in e, else the generic message with the raw text
FromTable(e, s) ==
    \/ \E k \in 1..Len(error_responses) :
        /\ Contains(e, error_responses[k][1])
        /\ \A j \in 1..(k - 1) : ~Contains(e, error_responses[j][1])
        /\ s = error_responses[k][2]
    \/ /\ \A k \in 1..Len(error_responses) : ~Contains(e, error_responses[k][1])
       /\ StartsWith(s, "An unexpected error occurred")
       /\ Contains(s, e)

\* C17: for an error text that is not suppressed the classifier makes
\* exactly one edit, to the message of the first table entry whose pattern
\* is in the text, or to the generic message that contains the raw text
\* when no entry matches.
C17_Table == \A h \in Handlers : \A e \in ErrorTexts : (Classifies(req[h], e) /\ ~Contains(e, "MESSAGE_NOT_MODIFIED")) =>
    \/ req[h].pc = "edit_classified" /\ req[h].written = <<Processing>> /\ FromTable(e, EditText(req[h]))
    \/ req[h].pc = "returned" /\ Len(req[h].written) = 2 /\ FromTable(e, req[h].written[2]) /\ req[h].status = req[h].written[2]

\* a text with two patterns got the message of the one that is first in the
\* table, not of the one that is first in the text
C17_Witness == \E h \in Handlers : req[h].pc = "returned" /\ Classifies(req[h], "Telegram says: [420 FLOOD_WAIT_X] after PEER_ID_INVALID") /\ req[h].status = "Error: Invalid channel/chat ID. Make sure the link is correct."

\* single-message public links, with the handle and the id they name
PublicSingles == {<<"https://t.me/demo/1", "demo", 1>>, <<"http://t.me/demo/7", "demo", 7>>,
                  <<"https://telegram.me/demo/1", "demo", 1>>, <<"http://telegram.me/demo/3", "demo", 3>>}

\* C18: for a single-message public link scheme://host/handle/N under either
\* host alias (t.me, telegram.me) the parser returns the locator of kind
\* public with channel = handle, range-start = range-end = N and no topic.
C18_PublicSingle == \A h \in Handlers : \A p \in PublicSingles : (req[h].in_try /\ req[h].text = p[1]) =>
    parse_telegram_link(req[h].telegram_link) = [type |-> "public", channel |-> p[2], topic_id |-> "None", message_id_start |-> p[3], message_id_end |-> p[3]]

\* well-formed private, private-with-topic and public-with-topic links
RestrictedLinks == {"https://t.me/c/1234/5", "https://t.me/c/1234/9/5", "https://t.me/demo/9/5", "https://telegram.me/c/1234/5"}

\* C19: a well-formed private, private-with-topic or public-with-topic link
\* yields None, and the request of such a link registers nothing and
\* fetches nothing.
C19_RestrictedPolicy == \A h \in Handlers : (req[h].in_try /\ req[h].text \in RestrictedLinks) =>
    /\ req[h].telegram_link = req[h].text
    /\ parse_telegram_link(req[h].telegram_link) = None
    /\ ~req[h].registered /\ req[h].fetches = <<>> /\ req[h].ops = <<>>
    /\ req[h].pc \in {"edit_invalid", "edit_error", "returned"}

\* the request of a private link returned with the invalid-format status
C19_Witness == \E h \in Handlers : req[h].pc = "returned" /\ req[h].text = "https://t.me/c/1234/5" /\ req[h].status = InvalidFormat /\ req[h].fetches = <<>>

\* C20: a range link sent with spaces around the dash is processed as the
\* batch of the ids of the range, as the same link without the spaces is.
C20_SpacedRange == \A h \in Handlers : (req[h].in_try /\ req[h].text = "https://t.me/demo/2 - 4") =>
    /\ req[h].msg_start = 2 /\ req[h].msg_end = 4 /\ req[h].num_messages = 3

\* the longest digit string D of the private links the claims quantify over
MaxDigits == 4

RECURSIVE Pow10(_)
Pow10(n) == IF n = 0 THEN 1 ELSE 10 * Pow10(n - 1)

\* the parse of the variant of src/main.py has run for the request of l
MainParsed(l) == l.pc \in {"copy_message_with_media", "edit_result", "returned"} /\ l.parsed # None

\* C21: for a private or private-with-topic link with the digit string D the
\* chat id returned is -(100 * 10^len(D) + value(D)), the integer read from
\* "-100" followed by D, the leading zeros of D counting in len(D); it is
\* the chat the transfer is called with.
C21_PrivateChatId == \A h \in Handlers : LET l == req[h] IN (MainParsed(l) /\ Segments(AfterTMe(l.telegram_link))[1] = "c" /\ Len(Segments(AfterTMe(l.telegram_link))) >= 3) =>
    LET D == Segments(AfterTMe(l.telegram_link))[2] IN
        /\ Len(D) <= MaxDigits
        /\ l.parsed.type \in {"private", "private_topic"}
        /\ l.parsed.chat_id = 0 - (100 * Pow10(Len(D)) + ToInt(D))
        /\ l.from_chat_id = <<l.parsed.chat_id>>

\* the private link with the digits 007 was parsed to the chat id -100007
C21_Witness == \E h \in Handlers : req[h].pc = "returned" /\ req[h].telegram_link = "http://t.me/c/007/5" /\ req[h].parsed.type = "private" /\ req[h].parsed.chat_id = 0 - 100007 /\ req[h].parsed.message_id = 5

\* C22: the first matching pattern in the order private-with-topic, private,
\* public-with-topic, public wins: a link c/D/N is private (never
\* public-with-topic with the handle c), a link c/D/T/N is
\* private-with-topic, and a locator has the kind of the number of
\* segments of its path (a 3-segment path is never a 2-segment kind).
C22_ShapePrecedence == \A h \in Handlers : LET l == req[h]
                                              g == Segments(AfterTMe(l.telegram_link))
    IN MainParsed(l) =>
        /\ (Len(g) = 3 /\ g[1] = "c") => (l.parsed.type = "private" /\ l.parsed.message_id = ToInt(g[3]) /\ l.parsed.topic_id = <<>>)
        /\ (Len(g) = 4 /\ g[1] = "c") => (l.parsed.type = "private_topic" /\ l.parsed.topic_id = <<ToInt(g[3])>> /\ l.parsed.message_id = ToInt(g[4]))
        /\ (Len(g) = 3 /\ g[1] # "c") => (l.parsed.type = "public_topic" /\ l.parsed.channel = g[1] /\ l.parsed.topic_id = <<ToInt(g[2])>>)
        /\ Len(g) = 2 => (l.parsed.type = "public" /\ l.parsed.channel = g[1])
        /\ Len(g) \in 2..4

\* the link c/1234/5 was classified private, and the transfer was called
\* with a numeric chat and no topic
C22_Witness == \E h \in Handlers : req[h].pc = "returned" /\ req[h].telegram_link = "https://t.me/c/1234/5" /\ req[h].parsed.type = "private" /\ req[h].from_chat_id = <<0 - 1001234>> /\ req[h].message_thread_id = <<>>

\* the canonical string of a locator
Format(L) == IF L.message_id_start = L.message_id_end
    THEN "https://t.me/" \o L.channel \o "/" \o ToString(L.message_id_start)
    ELSE "https://t.me/" \o L.channel \o "/" \o ToString(L.message_id_start) \o "-" \o ToString(L.message_id_end)

\* C23: formatting a locator returned by the parser to its canonical string
\* and parsing that string returns an equal locator.
C23_RoundTrip == \A h \in Handlers : req[h].in_try =>
    LET L == parse_telegram_link(req[h].telegram_link)
    IN L # None => parse_telegram_link(Format(L)) = L

\* the locator of a link with leading zeros was formatted to another string
\* than the link, and parsed back
C23_Witness == \E h \in Handlers : req[h].pc = "returned" /\ req[h].telegram_link = "https://t.me/demo/007" /\ req[h].msg_start = 7
    /\ Format(parse_telegram_link(req[h].telegram_link)) = "https://t.me/demo/7"

\* the Batch Run State of user u in the store ab
RunState(ab, u) == IF u \notin DOMAIN ab THEN "no-batch" ELSE IF ab[u] THEN "cancel-requested" ELSE "running"

\* C24: the Batch Run State of a user only moves no-batch -> running,
\* running -> cancel-requested, and from either to no-batch; a flag that is
\* true never becomes false again.
C24_Transitions == [][\A u \in Users : <<RunState(ACTIVE_BATCHES, u), RunState(ACTIVE_BATCHES', u)>> \in
    {<<"no-batch", "no-batch">>, <<"running", "running">>, <<"cancel-requested", "cancel-requested">>,
     <<"no-batch", "running">>, <<"running", "cancel-requested">>, <<"running", "no-batch">>, <<"cancel-requested", "no-batch">>}]_vars

\* C25: a link message of a sender whom the directory reports as banned gets
\* no placeholder, causes no fetch or transfer and leaves the store as it
\* was, the handler returning at once; and /cancel of a banned user changes
\* no flag.
C25_BannedShortCircuit == [][
    /\ \A h \in Handlers : (req[h].pc = "idle" /\ req'[h].pc # "idle" /\ directory[req'[h].user] = "banned") =>
        /\ req'[h].pc = "returned"
        /\ req'[h].status = "" /\ req'[h].answer = "" /\ req'[h].written = <<>>
        /\ req'[h].fetches = <<>> /\ req'[h].ops = <<>> /\ ~req'[h].registered
        /\ ACTIVE_BATCHES' = ACTIVE_BATCHES
    /\ \A u \in Users : (Cancel(u) /\ directory[u] = "banned") => ACTIVE_BATCHES' = ACTIVE_BATCHES]_vars

\* a banned user sent a link and /cancel while another user's batch was
\* registered: the handler returned without a placeholder
C25_Witness == \E h \in Handlers : req[h].pc = "returned" /\ req[h].user # 0 /\ directory[req[h].user] = "banned" /\ req[h].status = "" /\ reply = Banned /\ ACTIVE_BATCHES # NoBatches

\* C26: an admin command or admin callback of a user other than OWNER_ID
\* never changes a ban status and never gives out the user statistics or
\* the user list: only the owner's commands changed the directory, and
\* only the owner was sent statistics or the list.
C26_OwnerOnly ==
    /\ req.changed_by \subseteq {OWNER_ID}
    /\ req.disclosed_to \subseteq {OWNER_ID}
    /\ reply.kind \in {"stats", "users", "banned", "unbanned", "failed", "usage", "invalid", "help", "nousers"} => reply.to = OWNER_ID

\* the owner banned user 2 and was sent the user list; a button pressed by
\* user 2 was refused afterwards
C26_Witness == req.changed_by = {OWNER_ID} /\ req.disclosed_to = {OWNER_ID} /\ directory[2] = "banned" /\ reply = Answer(2, "denied", <<>>)

\* C27: within a batch the ids are fetched in ascending order, each once;
\* the fetch of an id starts only when the outcomes of all ids before it
\* are recorded in the counters; a task awaits one transfer call at a time.
C27_Sequential == \A h \in Handlers : LET l == req[h] IN
    /\ \A i \in 1..Len(l.fetches) : l.fetches[i] = l.msg_start + (i - 1)
    /\ Len(l.outcomes) = (IF l.pc \in TransferPcs THEN Len(l.fetches) - 1 ELSE Len(l.fetches))
    /\ l.pc \in TransferPcs => (l.msg_id = Last(l.fetches) /\ l.success_count + l.fail_count = Len(l.fetches) - 1)

\* the batch 2-4 has fetched its three ids in order and recorded three outcomes
C27_Witness == \E h \in Handlers : req[h].pc = "returned" /\ req[h].fetches = <<2, 3, 4>> /\ Len(req[h].outcomes) = 3 /\ req[h].success_count + req[h].fail_count = 3

\* C28: when every awaited call returns or raises, every request returns
\* from the handler, and it has made at most 100 transfer attempts, under
\* any interleaving with /cancel and with other requests.
C28_Termination ==
    /\ [](\A h \in Handlers : Len(req[h].fetches) <= 100)
    /\ \A h \in Handlers : (req[h].pc \notin {"idle", "returned"}) ~> (req[h].pc = "returned")

\* a request of 100 ids has returned after 100 transfer attempts
C28_Witness == \E h \in Handlers : req[h].pc = "returned" /\ Len(req[h].fetches) = 100 /\ Len(req[h].outcomes) = 100

\* C29: once /cancel of a user was acknowledged while a batch loop of that
\* user awaited a transfer step, the loop fetches no id beyond the one that
\* was in flight, whatever other link requests of the user are handled
\* meanwhile.
C29_NoLostCancellation == \A h \in Handlers : (req[h].cancelled /\ req[h].acked >= 0 /\ req[h].fetches # <<>>) => Last(req[h].fetches) <= req[h].acked

\* C30: from the registration of a batch to its finally clause the store
\* holds an entry for its user, so /cancel of that user is never answered
\* with "no active batch operation to cancel".
C30_RunningRegistered == \A h \in Handlers : (req[h].registered /\ req[h].pc # "returned") => req[h].user \in DOMAIN ACTIVE_BATCHES

\* C31: success_count is the number of ids whose transfer delivered the
\* message, whatever the diagnostic of the failed ones (the empty one
\* included), and the success confirmation is written only when the
\* transfer of the request delivered its message.
C31_SuccessOnlyDelivered == \A h \in Handlers : LET l == req[h] IN
    /\ l.success_count = Delivered(l)
    /\ Saved \in Range(l.written) => (\E i \in 1..Len(l.outcomes) : l.outcomes[i] = NoError)

\* the entry of user u in the store: absent, or the flag
Entry(ab, u) == IF u \in DOMAIN ab THEN Some(ab[u]) ELSE NoError

\* the step is taken on behalf of user u: a message of u arrives, a call
\* awaited by a handler of a request of u returns or raises, or /cancel of
\* u is handled
StepOf(u) ==
    \/ \E h \in Handlers, text \in DOMAIN Intake : Start(h, u, text)
    \/ \E h \in Handlers : req[h].user = u /\ Returning(h)
    \/ Cancel(u)

\* C32: a step taken for a link request or a /cancel of user A leaves the
\* store entry of every other user B as it was (absent, or the same flag)
\* and leaves the ids fetched and the counters of B's requests as they
\* were; a request whose own user sent no accepted /cancel attempts every
\* id of its range.
C32_Isolation ==
    /\ [][\A A \in Users : \A B \in Users \ {A} : StepOf(A) =>
            /\ Entry(ACTIVE_BATCHES', B) = Entry(ACTIVE_BATCHES, B)
            /\ \A h \in Handlers : req[h].user = B =>
                  /\ req'[h].fetches = req[h].fetches
                  /\ req'[h].success_count = req[h].success_count
                  /\ req'[h].fail_count = req[h].fail_count]_vars
    /\ [](\A h \in Handlers : (req[h].pc = "returned" /\ req[h].registered /\ ~req[h].cancelled /\ ~req[h].escaped /\ ~req[h].edit_raised) =>
            /\ Len(req[h].fetches) = req[h].num_messages
            /\ req[h].success_count + req[h].fail_count = req[h].num_messages)

\* user 2's batch attempted both its ids and reported them although /cancel
\* of user 1 was accepted for a batch of user 1 that was running meanwhile
C32_Witness == \E h \in Handlers : \E k \in Handlers \ {h} :
    /\ req[h].user = 1 /\ req[h].cancelled /\ req[h].registered /\ req[h].num_messages > 1
    /\ req[k].user = 2 /\ req[k].pc = "returned" /\ ~req[k].cancelled /\ req[k].fetches = <<2, 3>> /\ req[k].status = BatchComplete(1, 1)

\* the three strategies were tried for the last fetched id of l, all failed,
\* and the outcome of that id is recorded
AllFailed(l) == l.tried = Chain /\ l.results = <<FALSE, FALSE, FALSE>> /\ Len(l.outcomes) = Len(l.fetches)

\* C33: when the three strategies failed for an id, the diagnostic the
\* transfer returns is the text of the forward failure, and last_error is
\* that text once the outcome of the id is recorded.
C33_ForwardDiagnostic == \A h \in Handlers : LET l == req[h] IN AllFailed(l) =>
    /\ Last(l.outcomes) = l.diags[3]
    /\ l.last_error = l.diags[3]

\* C34: in a request of more than one id the recording of each id's
\* outcome, the last id's included, is followed by the pause, and only the
\* end of the pause leads to the next flag check; a single-message request
\* never pauses.
C34_Pacing == [][\A h \in Handlers : LET l == req[h]
                                         m == req'[h]
    IN /\ (l.pc \in TransferPcs /\ Len(m.outcomes) = Len(l.outcomes) + 1) => ((m.pc = "sleep") <=> (l.num_messages > 1))
       /\ (l.pc \in TransferPcs /\ l.num_messages > 1 /\ m.pc \notin TransferPcs) => (m.pc = "sleep" /\ m.msg_id = l.msg_id /\ m.observed = l.observed)
       /\ m.pc = "sleep" => (m.num_messages > 1 /\ Len(m.outcomes) = Len(m.fetches))]_vars

\* the batch 2-4 pauses after the transfer attempt of its last id
C34_Witness == \E h \in Handlers : req[h].pc = "sleep" /\ req[h].msg_start = 2 /\ req[h].msg_end = 4 /\ req[h].msg_id = 4 /\ Len(req[h].outcomes) = 3

\* C35: handling a link message or a /cancel command leaves the user
\* directory as it was: no record is created or changed.
C35_DirectoryPureRead == [][directory' = directory]_vars

====
